---- MODULE Spec2Model ----
(***************************************************************************)
(* The instructional notebooks of Learn-AI-Engineering as a state machine. *)
(*                                                                         *)
(* A notebook is run top to bottom in one kernel: the state is the         *)
(* kernel's global variables, the requests the OpenAI client has been      *)
(* asked to make, the in-memory Qdrant collection and the index of the     *)
(* next code cell.  One action models one code cell.  A cell that raises   *)
(* stops the run.                                                          *)
(*                                                                         *)
(* A string is modelled as the sequence of its pieces (atoms).  A piece is *)
(* either a literal of the source or one paragraph of the essay; the       *)
(* paragraphs of an essay are pairwise different texts, so a paragraph     *)
(* piece carries its position in the essay.                                *)
(***************************************************************************)
EXTENDS Integers, Sequences, FiniteSets, TLC

\* ---------------------------------------------------------------- bounds

\* The essay has 1..MaxParas paragraphs.
MaxParas == 3
\* The tokenizer packs 1..MaxCharsPerToken characters of the essay in a token.
MaxCharsPerToken == 2
\* Characters of a long and of a short paragraph of the essay.
LongChars == 900
ShortChars == 90
\* Longest list handed to a function called on its own (SpecCalls).
MaxList == 2

\* ------------------------------------------------------ program constants

chunk_size == 1024
chunk_overlap == 96
limit == 2
MaxModelTokens == 16385

MODEL == "gpt-3.5-turbo-0125"
EMBEDDING_MODEL == "text-embedding-3-small"

\* ---------------------------------------------------------------- strings

Lit(s) == [s |-> s, i |-> 0]
Para(kind, pos) == [s |-> kind, i |-> pos]
Str(s) == <<Lit(s)>>

SEP == Lit("\n\n")

\* The essays the file may hold: paragraphs joined by blank lines.
ParaKinds == {"L", "S"}

RECURSIVE JoinParas(_, _)
JoinParas(kinds, k) ==
    IF k > Len(kinds) THEN <<>>
    ELSE (IF k > 1 THEN <<SEP>> ELSE <<>>) \o <<Para(kinds[k], k)>>
         \o JoinParas(kinds, k + 1)

Essays ==
    { JoinParas(kinds, 1) :
        kinds \in UNION { [1..n -> ParaKinds] : n \in 1..MaxParas } }

\* len() of one piece of an essay, in characters.
CharLen(a) ==
    IF a = SEP THEN 2
    ELSE IF a.s = "L" THEN LongChars
    ELSE ShortChars

RECURSIVE len(_)
len(s) == IF s = <<>> THEN 0 ELSE CharLen(Head(s)) + len(Tail(s))

\* tiktoken: a token covers cpt characters of the text (the last token of a
\* piece may cover fewer), so a piece of n characters is ceil(n / cpt) tokens.
RECURSIVE num_tokens(_, _)
num_tokens(s, cpt) ==
    IF s = <<>> THEN 0
    ELSE ((CharLen(Head(s)) + cpt - 1) \div cpt) + num_tokens(Tail(s), cpt)

\* str.join
RECURSIVE join(_, _)
join(sep, strs) ==
    IF strs = <<>> THEN <<>>
    ELSE IF Len(strs) = 1 THEN strs[1]
    ELSE strs[1] \o sep \o join(sep, Tail(strs))

\* ----------------------------------------------- RecursiveCharacterTextSplitter

\* text.split("\n\n"): the paragraphs.
Splits(t) == SelectSeq(t, LAMBDA a : a # SEP)

\* The while loop of _merge_splits: drop splits from the front of current_doc
\* while it is longer than the overlap, or still too long to take the next split.
RECURSIVE PopFront(_, _, _)
PopFront(cur, total, dlen) ==
    IF total > chunk_overlap
       \/ (total + dlen + (IF Len(cur) > 0 THEN 2 ELSE 0) > chunk_size
           /\ total > 0)
    THEN PopFront(Tail(cur),
                  total - (CharLen(Head(cur)) + (IF Len(cur) > 1 THEN 2 ELSE 0)),
                  dlen)
    ELSE <<cur, total>>

\* _merge_splits: docs and cur are sequences of positions in splits.
RECURSIVE MergeSplits(_, _, _, _, _)
MergeSplits(splits, k, docs, cur, total) ==
    IF k > Len(splits) THEN (IF cur = <<>> THEN docs ELSE Append(docs, cur))
    ELSE
      LET dlen == CharLen(splits[k])
          full == total + dlen + (IF Len(cur) > 0 THEN 2 ELSE 0) > chunk_size
          curSplits == [j \in 1..Len(cur) |-> splits[cur[j]]]
          popped == IF full /\ Len(cur) > 0
                    THEN PopFront(curSplits, total, dlen)
                    ELSE <<curSplits, total>>
          kept == SubSeq(cur, Len(cur) - Len(popped[1]) + 1, Len(cur))
          docs2 == IF full /\ Len(cur) > 0 THEN Append(docs, cur) ELSE docs
          cur2 == Append(kept, k)
      IN MergeSplits(splits, k + 1, docs2, cur2,
                     popped[2] + dlen + (IF Len(cur2) > 1 THEN 2 ELSE 0))

\* The splits each chunk holds, as a sequence of positions.
ChunkSpans(t) == MergeSplits(Splits(t), 1, <<>>, <<>>, 0)

PageContent(splits, span) ==
    join(<<SEP>>, [j \in 1..Len(span) |-> <<splits[span[j]]>>])

\* create_documents([text]): one Document per chunk.
create_documents(t) ==
    LET spans == ChunkSpans(t)
    IN [c \in 1..Len(spans) |-> [page_content |-> PageContent(Splits(t), spans[c])]]

\* ------------------------------------------------------------ the services

\* What the chat-completion service may answer to one request.
Replies == {"reply A", "reply B"}
Errors == {"APIConnectionError", "RateLimitError"}

ChatResponse(r) ==
    [choices |-> <<[index |-> 0,
                    message |-> [role |-> "assistant", content |-> Str(r)]]>>]

ChatOutcomes ==
    {[ok |-> TRUE, exc |-> "none", response |-> ChatResponse(r)] : r \in Replies}
    \cup {[ok |-> FALSE, exc |-> e, response |-> [choices |-> <<>>]] : e \in Errors}

\* Embeddings are unit vectors; here 25 times two of their 1536 components, so
\* that the cosine similarity of two of them is their dot product over 25.
Vecs == {<<5, 0>>, <<3, 4>>, <<-4, 3>>}

EmbResponse(vs) ==
    [data |-> [k \in 1..Len(vs) |-> [index |-> k - 1, embedding |-> vs[k]]]]

\* One embedding per input, in the order of the inputs; an empty input list
\* is refused.
EmbOutcomes(n) ==
    (IF n = 0 THEN {}
     ELSE {[ok |-> TRUE, exc |-> "none", response |-> EmbResponse(vs)] :
             vs \in [1..n -> Vecs]})
    \cup {[ok |-> FALSE, exc |-> e, response |-> [data |-> <<>>]] : e \in Errors}

\* The service's answers to the first and to a second request of one call.
ChatService == [1..2 -> ChatOutcomes]
EmbService(n) == [1..2 -> EmbOutcomes(n)]

\* ------------------------------------------------- the notebook's functions

\* The result of a call: the requests it sent, the exception it raised
\* ("none": it returned) and the value it returned.

\* ask with a retry: a failed request is sent once more.
ask_retry(query, model, service) ==
    LET request == [model |-> model,
                    messages |->
                      <<[role |-> "system",
                         content |-> Str("You are a helpful assistant.")],
                        [role |-> "user", content |-> query]>>,
                    temperature |-> 0]
        o == IF service[1].ok THEN service[1] ELSE service[2]
    IN [sent |-> IF service[1].ok THEN <<request>> ELSE <<request, request>>,
        exc |-> o.exc,
        ret |-> IF o.ok THEN o.response.choices[1].message.content ELSE <<>>]

\* ask without temperature=0: the request samples at the default temperature.
ask_default_temperature(query, model, service) ==
    LET request == [model |-> model,
                    messages |->
                      <<[role |-> "system",
                         content |-> Str("You are a helpful assistant.")],
                        [role |-> "user", content |-> query]>>,
                    temperature |-> 1]
        o == service[1]
    IN [sent |-> <<request>>,
        exc |-> o.exc,
        ret |-> IF o.ok THEN o.response.choices[1].message.content ELSE <<>>]

ask(query, model, service) ==
    LET request == [model |-> model,
                    messages |->
                      <<[role |-> "system",
                         content |-> Str("You are a helpful assistant.")],
                        [role |-> "user", content |-> query]>>,
                    temperature |-> 0]
        o == service[1]
    IN [sent |-> <<request>>,
        exc |-> o.exc,
        ret |-> IF o.ok THEN o.response.choices[1].message.content ELSE <<>>]

introduction ==
    Str("Use the below writing from Paul Graham to answer the subsequent question. If the answer cannot be found in the articles, write \"I could not find an answer.")

question(query) == <<SEP, Lit("Question: ")>> \o query \o <<SEP>>

\* ask_with_context with the question put before the writing.
ask_with_context_question_first(query, context, model, service) ==
    ask(introduction \o question(query) \o join(<<SEP>>, context), model, service)

ask_with_context(query, context, model, service) ==
    ask(introduction \o join(<<SEP>>, context) \o question(query), model, service)

\* create_embeddings in two batches: the first text, then the others.
create_embeddings_batched(txts, model, service) ==
    LET batches == IF Len(txts) <= 1 THEN <<txts>>
                   ELSE <<SubSeq(txts, 1, 1), SubSeq(txts, 2, Len(txts))>>
        o == service[1]
    IN [sent |-> [k \in 1..Len(batches) |-> [input |-> batches[k], model |-> model]],
        exc |-> o.exc,
        ret |-> IF o.ok THEN o.response ELSE <<>>]

create_embeddings(txts, model, service) ==
    LET request == [input |-> txts, model |-> model]
        o == service[1]
    IN [sent |-> <<request>>,
        exc |-> o.exc,
        ret |-> IF o.ok THEN o.response ELSE <<>>]

\* ------------------------------------------------------------------ Qdrant

VectorParams == [size |-> 1536, distance |-> "Cosine"]

\* recreate_collection: drop the collection if it exists, create it empty.
recreate_collection(params) == [exists |-> TRUE, config |-> params, points |-> {}]

\* The points with ids counted from 1.
PointStructs_from_one(vs, docs) ==
    [k \in 1..Len(vs) |->
        [id |-> k, vector |-> vs[k], payload |-> docs[k].page_content]]

\* The points built by the index cell: ids count from 0.
PointStructs(vs, docs) ==
    [k \in 1..Len(vs) |->
        [id |-> k - 1, vector |-> vs[k], payload |-> docs[k].page_content]]

\* upload_points: upsert every point (a point replaces one of the same id).
RECURSIVE upload_points(_, _)
upload_points(coll, pts) ==
    IF pts = <<>> THEN coll
    ELSE upload_points(
           [coll EXCEPT !.points =
               {p \in @ : p.id # Head(pts).id} \cup {Head(pts)}],
           Tail(pts))

\* 25 times the cosine similarity of two of Vecs.
Score(v, q) == v[1] * q[1] + v[2] * q[2]

Min(a, b) == IF a < b THEN a ELSE b

\* search: the lim best-scored points as ScoredPoints, best first.  Which of
\* several equally scored points comes first is the store's choice: every
\* ranking it may return.
search(coll, q, lim) ==
    LET hits == {[id |-> p.id, score |-> Score(p.vector, q), payload |-> p.payload] :
                   p \in coll.points}
        k == Min(lim, Cardinality(hits))
    IN { r \in [1..k -> hits] :
           /\ \A a, b \in 1..k : a < b => r[a] # r[b] /\ r[a].score >= r[b].score
           /\ \A h \in hits : (\A a \in 1..k : r[a] # h)
                               => \A a \in 1..k : r[a].score >= h.score }

\* The ids of the hits, last hit first.
HitIds_reversed(results) ==
    [k \in 1..Len(results) |-> results[Len(results) + 1 - k].id]

\* [hit.id for hit in search_results] and [hit.score for hit in search_results]
HitIds(results) == [k \in 1..Len(results) |-> results[k].id]
HitScores(results) == [k \in 1..Len(results) |-> results[k].score]

\* [context_text[neighbors[0]]]
SelectedContext(ctx, nbrs) == <<ctx[nbrs[1] + 1]>>

QUERY == Str("What did Paul Graham do in Summer of 2016?")

\* ---------------------------------------------------------------- messages

\* Lecture 1, "Example OpenAI Python library request"
KnockKnockMessages ==
    <<[role |-> "system", content |-> Str("You are a helpful assistant.")],
      [role |-> "user", content |-> Str("Knock knock.")],
      [role |-> "assistant", content |-> Str("Who's there?")],
      [role |-> "user", content |-> Str("Orange.")]>>

\* Lecture 1, the verbose system message
VerboseMessages ==
    <<[role |-> "system",
       content |-> Str("You are a friendly and helpful teaching assistant.")],
      [role |-> "user", content |-> Str("Describe the weather in Nagpur in May")]>>

\* Prompting essentials, the concise system message
ConciseMessages ==
    <<[role |-> "system", content |-> Str("You are a concise, crisp assistant.")],
      [role |-> "user", content |-> Str("Describe the weather in Nagpur in May")]>>

\* The few-shot conversation with its first faked answer left out.
FewShotMessages_two_users ==
    <<[role |-> "system",
       content |-> Str("You are a helpful, pattern-following assistant who speaks plain English.")],
      [role |-> "user",
       content |-> Str("Help me translate the following corporate jargon into plain English.")],
      [role |-> "user",
       content |-> Str("New synergies will help drive top-line growth.")],
      [role |-> "assistant",
       content |-> Str("Things working well together will increase revenue.")]>>

\* Prompting essentials, the faked few-shot conversation
FewShotMessages ==
    <<[role |-> "system",
       content |-> Str("You are a helpful, pattern-following assistant who speaks plain English.")],
      [role |-> "user",
       content |-> Str("Help me translate the following corporate jargon into plain English.")],
      [role |-> "assistant", content |-> Str("Sure, I'd be happy to!")],
      [role |-> "user",
       content |-> Str("New synergies will help drive top-line growth.")],
      [role |-> "assistant",
       content |-> Str("Things working well together will increase revenue.")],
      [role |-> "user",
       content |-> Str("Let's circle back when we have more bandwidth to touch base on opportunities for increased leverage.")],
      [role |-> "assistant",
       content |-> Str("Let's talk later when we're less busy about how to do better.")]>>

\* client.chat.completions.create(model=MODEL, messages=..., temperature=0)
\* written in a cell: one request; the cell raises what the request raises.
chat_create(messages, service) ==
    LET o == service[1]
    IN [sent |-> <<[model |-> MODEL, messages |-> messages, temperature |-> 0]>>,
        exc |-> o.exc,
        ret |-> o.response]

\* ------------------------------------------------------------------- state

\* Search-101 with the search cell above the index cell.
SearchCells_search_first ==
    <<"imports", "read", "ask", "num_tokens", "chunk", "embed", "vectors",
      "query", "search", "index", "generate">>

\* The code cells of each notebook, top to bottom.
SearchCells ==
    <<"imports", "read", "ask", "num_tokens", "chunk", "embed", "vectors",
      "index", "query", "search", "generate">>
Lecture1Cells == <<"imports", "request", "dump", "reply", "verbose">>
PromptingCells == <<"imports", "concise", "few_shot">>

Cells(n) ==
    CASE n = "search" -> SearchCells
      [] n = "lecture1" -> Lecture1Cells
      [] n = "prompting" -> PromptingCells
      [] OTHER -> <<>>

VARIABLES
    nb,          \* the notebook this kernel runs ("calls": no notebook)
    pc,          \* index in Cells(nb) of the next cell to run
    raised,      \* the exception that stopped the run, or "none"
    ran,         \* the cells run so far, the one that raised included
    names,       \* the names defined in the kernel
    g,           \* the values of the kernel's global variables
    essay,       \* the text of ../data/paul_graham/paul_graham_essay.txt
    cpt,         \* characters per token of that text
    collection,  \* the collection 'demo' of the in-memory Qdrant client
    chatLog,     \* the chat-completion requests sent, in order
    embLog,      \* the embeddings requests sent, in order
    lastCall,    \* the last call of ask, ask_with_context or create_embeddings
    out          \* what the last cell displayed

vars == <<nb, pc, raised, ran, names, g, essay, cpt, collection, chatLog,
          embLog, lastCall, out>>

NoCall ==
    [fn |-> "none", query |-> <<>>, context |-> <<>>, texts |-> <<>>,
     model |-> "", served |-> <<>>, sent |-> <<>>, exc |-> "none", ret |-> <<>>]

\* A call as lastCall keeps it: served is what the service answered to the
\* requests the call sent.
Call(fn, query, context, txts, model, service, r) ==
    [fn |-> fn, query |-> query, context |-> context, texts |-> txts,
     model |-> model, served |-> SubSeq(service, 1, Len(r.sent)),
     sent |-> r.sent, exc |-> r.exc, ret |-> r.ret]

NoGlobals ==
    [text |-> <<>>, texts |-> <<>>, context_text |-> <<>>,
     response |-> [data |-> <<>>], vectors |-> <<>>, points |-> <<>>,
     query_vector |-> <<>>, search_results |-> <<>>, neighbors |-> <<>>,
     distances |-> <<>>, selected_context |-> <<>>]

NoCollection == [exists |-> FALSE, config |-> VectorParams, points |-> {}]

InitCommon ==
    /\ pc = 1
    /\ raised = "none"
    /\ ran = <<>>
    /\ names = {}
    /\ g = NoGlobals
    /\ collection = NoCollection
    /\ chatLog = <<>>
    /\ embLog = <<>>
    /\ lastCall = NoCall
    /\ out = <<>>

Init ==
    /\ nb \in {"search", "lecture1", "prompting"}
    /\ essay \in Essays
    /\ cpt \in 1..MaxCharsPerToken
    /\ InitCommon

\* The kernel is about to run cell c of notebook n.
At(n, c) ==
    /\ nb = n
    /\ raised = "none"
    /\ pc \in 1..Len(Cells(n))
    /\ Cells(n)[pc] = c
    /\ ran' = Append(ran, c)

\* The cell ran to its end.
Done == pc' = pc + 1 /\ raised' = "none"

\* The cell raised e: the run stops there.
Raise(e) == pc' = pc /\ raised' = e

\* ------------------------------------------------------ Search-101's cells

S_imports ==
    /\ At("search", "imports")
    /\ names' = names \cup {"client", "MODEL"}
    /\ Done
    /\ UNCHANGED <<nb, g, essay, cpt, collection, chatLog, embLog, lastCall, out>>

S_read ==
    /\ At("search", "read")
    /\ g' = [g EXCEPT !.text = essay]
    /\ names' = names \cup {"text"}
    /\ Done
    /\ UNCHANGED <<nb, essay, cpt, collection, chatLog, embLog, lastCall, out>>

S_ask ==
    /\ At("search", "ask")
    /\ IF {"client", "MODEL"} \subseteq names
       THEN \E service \in ChatService :
              LET r == ask(QUERY, MODEL, service)
              IN /\ chatLog' = chatLog \o r.sent
                 /\ lastCall' = Call("ask", QUERY, <<>>, <<>>, MODEL, service, r)
                 /\ names' = names \cup {"ask"}
                 /\ IF r.exc = "none"
                    THEN out' = r.ret /\ Done
                    ELSE out' = out /\ Raise(r.exc)
       ELSE /\ Raise("NameError")
            /\ UNCHANGED <<names, chatLog, lastCall, out>>
    /\ UNCHANGED <<nb, g, essay, cpt, collection, embLog>>

S_num_tokens ==
    /\ At("search", "num_tokens")
    /\ IF {"text", "MODEL"} \subseteq names
       THEN /\ out' = num_tokens(g.text, cpt)
            /\ names' = names \cup {"num_tokens"}
            /\ Done
       ELSE Raise("NameError") /\ UNCHANGED <<names, out>>
    /\ UNCHANGED <<nb, g, essay, cpt, collection, chatLog, embLog, lastCall>>

S_chunk ==
    /\ At("search", "chunk")
    /\ IF "text" \in names
       THEN LET docs == create_documents(g.text)
                ctx == [k \in 1..Len(docs) |-> docs[k].page_content]
            IN /\ g' = [g EXCEPT !.texts = docs, !.context_text = ctx]
               /\ names' = names \cup {"text_splitter", "texts", "context_text"}
               /\ out' = <<Len(ctx), ctx[1]>>
               /\ Done
       ELSE Raise("NameError") /\ UNCHANGED <<names, g, out>>
    /\ UNCHANGED <<nb, essay, cpt, collection, chatLog, embLog, lastCall>>

S_embed ==
    /\ At("search", "embed")
    /\ IF {"client", "context_text"} \subseteq names
       THEN \E service \in EmbService(Len(g.context_text)) :
              LET r == create_embeddings(g.context_text, EMBEDDING_MODEL, service)
              IN /\ embLog' = embLog \o r.sent
                 /\ lastCall' = Call("create_embeddings", <<>>, <<>>,
                                     g.context_text, EMBEDDING_MODEL, service, r)
                 /\ IF r.exc = "none"
                    THEN /\ g' = [g EXCEPT !.response = r.ret]
                         /\ names' = names \cup
                              {"EMBEDDING_MODEL", "create_embeddings", "response"}
                         /\ out' = Len(r.ret.data)
                         /\ Done
                    ELSE /\ g' = g
                         /\ names' = names \cup
                              {"EMBEDDING_MODEL", "create_embeddings"}
                         /\ out' = out
                         /\ Raise(r.exc)
       ELSE /\ Raise("NameError")
            /\ UNCHANGED <<names, g, embLog, lastCall, out>>
    /\ UNCHANGED <<nb, essay, cpt, collection, chatLog>>

S_vectors ==
    /\ At("search", "vectors")
    /\ IF "response" \in names
       THEN LET vs == [k \in 1..Len(g.response.data) |-> g.response.data[k].embedding]
            IN /\ g' = [g EXCEPT !.vectors = vs]
               /\ names' = names \cup {"vectors"}
               /\ out' = <<Len(vs), Len(vs[1])>>
               /\ Done
       ELSE Raise("NameError") /\ UNCHANGED <<names, g, out>>
    /\ UNCHANGED <<nb, essay, cpt, collection, chatLog, embLog, lastCall>>

S_index ==
    /\ At("search", "index")
    /\ IF {"vectors", "texts"} \subseteq names
       THEN LET pts == PointStructs(g.vectors, g.texts)
            IN /\ g' = [g EXCEPT !.points = pts]
               /\ collection' = upload_points(recreate_collection(VectorParams), pts)
               /\ names' = names \cup {"qdrant_client", "points"}
               /\ Done
       ELSE /\ collection' = recreate_collection(VectorParams)
            /\ names' = names \cup {"qdrant_client"}
            /\ g' = g
            /\ Raise("NameError")
    /\ UNCHANGED <<nb, essay, cpt, chatLog, embLog, lastCall, out>>

S_query ==
    /\ At("search", "query")
    /\ IF "create_embeddings" \in names
       THEN \E service \in EmbService(1) :
              LET r == create_embeddings(<<QUERY>>, EMBEDDING_MODEL, service)
              IN /\ embLog' = embLog \o r.sent
                 /\ lastCall' = Call("create_embeddings", <<>>, <<>>, <<QUERY>>,
                                     EMBEDDING_MODEL, service, r)
                 /\ IF r.exc = "none"
                    THEN /\ g' = [g EXCEPT !.query_vector = r.ret.data[1].embedding]
                         /\ names' = names \cup {"query_vector"}
                         /\ Done
                    ELSE g' = g /\ names' = names /\ Raise(r.exc)
       ELSE /\ Raise("NameError")
            /\ UNCHANGED <<names, g, embLog, lastCall>>
    /\ UNCHANGED <<nb, essay, cpt, collection, chatLog, out>>

S_search ==
    /\ At("search", "search")
    /\ IF ~({"qdrant_client", "query_vector"} \subseteq names)
       THEN Raise("NameError") /\ UNCHANGED <<names, g, out>>
       ELSE IF ~collection.exists
       THEN Raise("ValueError") /\ UNCHANGED <<names, g, out>>
       ELSE \E results \in search(collection, g.query_vector, limit) :
              /\ g' = [g EXCEPT !.search_results = results,
                                !.neighbors = HitIds(results),
                                !.distances = HitScores(results)]
              /\ names' = names \cup {"search_results", "neighbors", "distances"}
              /\ out' = <<HitIds(results), HitScores(results)>>
              /\ Done
    /\ UNCHANGED <<nb, essay, cpt, collection, chatLog, embLog, lastCall>>

S_generate ==
    /\ At("search", "generate")
    /\ IF ~({"ask", "context_text", "neighbors"} \subseteq names)
       THEN /\ Raise("NameError")
            /\ names' = names \cup {"ask_with_context"}
            /\ UNCHANGED <<g, chatLog, lastCall, out>>
       ELSE IF g.neighbors = <<>>
       THEN /\ Raise("IndexError")
            /\ names' = names \cup {"ask_with_context"}
            /\ UNCHANGED <<g, chatLog, lastCall, out>>
       ELSE \E service \in ChatService :
              LET sel == SelectedContext(g.context_text, g.neighbors)
                  r == ask_with_context(QUERY, sel, MODEL, service)
              IN /\ g' = [g EXCEPT !.selected_context = sel]
                 /\ names' = names \cup {"ask_with_context", "selected_context"}
                 /\ chatLog' = chatLog \o r.sent
                 /\ lastCall' = Call("ask_with_context", QUERY, sel, <<>>, MODEL,
                                     service, r)
                 /\ IF r.exc = "none"
                    THEN out' = r.ret /\ Done
                    ELSE out' = out /\ Raise(r.exc)
    /\ UNCHANGED <<nb, essay, cpt, collection, embLog>>

\* ------------------------------------------------------- Lecture 1's cells

\* A cell that is one chat-completion request assigned to response.
ChatCell(n, c, messages) ==
    /\ At(n, c)
    /\ IF {"client", "MODEL"} \subseteq names \/ (c = "request" /\ "client" \in names)
       THEN \E service \in ChatService :
              LET r == chat_create(messages, service)
              IN /\ chatLog' = chatLog \o r.sent
                 /\ IF r.exc = "none"
                    THEN /\ g' = [g EXCEPT !.response = r.ret]
                         /\ names' = names \cup {"MODEL", "response"}
                         /\ out' = IF c = "request" THEN out
                                   ELSE r.ret.choices[1].message.content
                         /\ Done
                    ELSE /\ g' = g
                         /\ names' = IF c = "request" THEN names \cup {"MODEL"}
                                     ELSE names
                         /\ out' = out
                         /\ Raise(r.exc)
       ELSE Raise("NameError") /\ UNCHANGED <<names, g, chatLog, out>>
    /\ UNCHANGED <<nb, essay, cpt, collection, embLog, lastCall>>

\* A cell that displays the reply of response.
ShowCell(n, c) ==
    /\ At(n, c)
    /\ IF "response" \in names
       THEN out' = g.response.choices[1].message.content /\ Done
       ELSE out' = out /\ Raise("NameError")
    /\ UNCHANGED <<nb, names, g, essay, cpt, collection, chatLog, embLog, lastCall>>

L_imports ==
    /\ At("lecture1", "imports")
    /\ names' = names \cup {"client"}
    /\ Done
    /\ UNCHANGED <<nb, g, essay, cpt, collection, chatLog, embLog, lastCall, out>>

L_request == ChatCell("lecture1", "request", KnockKnockMessages)

L_dump == ShowCell("lecture1", "dump")

L_reply == ShowCell("lecture1", "reply")

L_verbose == ChatCell("lecture1", "verbose", VerboseMessages)

\* ------------------------------------------ Prompting essentials' cells

P_imports ==
    /\ At("prompting", "imports")
    /\ names' = names \cup {"client", "MODEL"}
    /\ Done
    /\ UNCHANGED <<nb, g, essay, cpt, collection, chatLog, embLog, lastCall, out>>

P_concise == ChatCell("prompting", "concise", ConciseMessages)

P_few_shot == ChatCell("prompting", "few_shot", FewShotMessages)

Next ==
    \/ S_imports \/ S_read \/ S_ask \/ S_num_tokens \/ S_chunk \/ S_embed
    \/ S_vectors \/ S_index \/ S_query \/ S_search \/ S_generate
    \/ L_imports \/ L_request \/ L_dump \/ L_reply \/ L_verbose
    \/ P_imports \/ P_concise \/ P_few_shot

\* The notebooks, each run top to bottom.
Spec == Init /\ [][Next]_vars

\* --------------------------------------------- the functions called alone

\* Arguments a caller may hand to the functions of Search-101.
Queries == {QUERY, Str("Who is Paul Graham?")}
ChatModels == {MODEL, "gpt-4"}
EmbeddingModels == {EMBEDDING_MODEL, "text-embedding-3-large"}
Chunks == {<<Para("L", 1)>>, <<Para("S", 2), SEP, Para("L", 3)>>}
Lists == UNION { [1..n -> Chunks] : n \in 0..MaxList }

InitCalls ==
    /\ nb = "calls"
    /\ essay = <<>>
    /\ cpt = 1
    /\ InitCommon

\* The kernel has defined the functions and calls one of them.
Calling(fn) ==
    /\ nb = "calls"
    /\ pc = 1
    /\ raised = "none"
    /\ ran' = Append(ran, fn)
    /\ pc' = 2

Call_ask ==
    /\ Calling("ask")
    /\ \E query \in Queries, model \in ChatModels, service \in ChatService :
         LET r == ask(query, model, service)
         IN /\ chatLog' = chatLog \o r.sent
            /\ lastCall' = Call("ask", query, <<>>, <<>>, model, service, r)
            /\ raised' = r.exc
            /\ out' = r.ret
    /\ UNCHANGED <<nb, names, g, essay, cpt, collection, embLog>>

Call_ask_with_context ==
    /\ Calling("ask_with_context")
    /\ \E query \in Queries, context \in Lists, model \in ChatModels,
          service \in ChatService :
         LET r == ask_with_context(query, context, model, service)
         IN /\ chatLog' = chatLog \o r.sent
            /\ lastCall' = Call("ask_with_context", query, context, <<>>, model,
                                service, r)
            /\ raised' = r.exc
            /\ out' = r.ret
    /\ UNCHANGED <<nb, names, g, essay, cpt, collection, embLog>>

Call_create_embeddings ==
    /\ Calling("create_embeddings")
    /\ \E txts \in Lists, model \in EmbeddingModels :
         \E service \in EmbService(Len(txts)) :
           LET r == create_embeddings(txts, model, service)
           IN /\ embLog' = embLog \o r.sent
              /\ lastCall' = Call("create_embeddings", <<>>, <<>>, txts, model,
                                  service, r)
              /\ raised' = r.exc
              /\ out' = r.ret
    /\ UNCHANGED <<nb, names, g, essay, cpt, collection, chatLog>>

NextCalls == Call_ask \/ Call_ask_with_context \/ Call_create_embeddings

\* One call of one function, on arguments and service answers of the caller's.
SpecCalls == InitCalls /\ [][NextCalls]_vars

\* ================================================================== claims

Range(f) == {f[k] : k \in DOMAIN f}

\* The steps of retrieval augmented generation, as the notebook lists them,
\* and the cells that make up each.
StepOf(c) ==
    CASE c \in {"read", "chunk"} -> 1
      [] c \in {"embed", "vectors"} -> 2
      [] c = "index" -> 3
      [] c \in {"query", "search"} -> 4
      [] c = "generate" -> 5
      [] OTHER -> 0

PipelineCells == {"read", "chunk", "embed", "vectors", "index", "query",
                  "search", "generate"}

\* C1: in a top-to-bottom run of Search-101 the steps run in the documented
\* order (prepare, embed, index, search, generate) and a cell of a step runs
\* only after every cell of the earlier steps has run to its end; the search
\* runs on a collection that holds a point for every chunk; the generation
\* request is built only after the search has set neighbors.
C1_StepsInOrder ==
    nb = "search" =>
      /\ \A k \in 1..Len(ran) :
           \A c \in PipelineCells :
             (StepOf(ran[k]) > 0 /\ StepOf(c) < StepOf(ran[k]))
               => \E j \in 1..(k - 1) : ran[j] = c
      /\ \A j, k \in 1..Len(ran) :
           (j < k /\ StepOf(ran[j]) > 0 /\ StepOf(ran[k]) > 0)
             => StepOf(ran[j]) <= StepOf(ran[k])
      /\ (\E k \in 1..Len(ran) : ran[k] = "search")
           => /\ collection.exists
              /\ Cardinality(collection.points) = Len(g.context_text)
              /\ Len(g.context_text) > 0
      /\ lastCall.fn = "ask_with_context"
           => /\ "neighbors" \in names
              /\ g.neighbors # <<>>
              /\ g.neighbors = [k \in 1..Len(g.search_results) |->
                                  g.search_results[k].id]

\* C1 witness: a whole run of Search-101, the answer generated.
C1_Witness ==
    /\ nb = "search"
    /\ raised = "none"
    /\ pc = Len(SearchCells) + 1
    /\ Len(g.context_text) >= 3
    /\ lastCall.fn = "ask_with_context"

\* C2: when the answer has been generated, the context of the prompt it was
\* generated from is the documents the search returned: every chunk whose id
\* is in neighbors, and no other chunk.
C2_ContextIsRetrieved ==
    (nb = "search" /\ lastCall.fn = "ask_with_context" /\ lastCall.exc = "none") =>
      /\ \A k \in 1..Len(g.neighbors) :
           g.context_text[g.neighbors[k] + 1] \in Range(lastCall.context)
      /\ \A c \in Range(lastCall.context) :
           \E k \in 1..Len(g.neighbors) : c = g.context_text[g.neighbors[k] + 1]

\* C3: every chunk is about 1024 tokens and never above the model's maximum:
\* counted in tokens, a chunk is within the budget of chunk_size, and a chunk
\* that is not the last was closed because the next paragraph would have
\* taken it over that budget.
C3_ChunksOf1024Tokens ==
    (nb = "search" /\ "context_text" \in names) =>
      LET spans == ChunkSpans(g.text)
          splits == Splits(g.text)
      IN \A c \in 1..Len(g.context_text) :
           /\ num_tokens(g.context_text[c], cpt) <= MaxModelTokens
           /\ num_tokens(g.context_text[c], cpt) <= chunk_size
           /\ c < Len(g.context_text) =>
                num_tokens(g.context_text[c], cpt) + num_tokens(<<SEP>>, cpt)
                  + num_tokens(<<splits[spans[c][Len(spans[c])] + 1]>>, cpt)
                > chunk_size

C5_FailurePropagates ==
    lastCall.fn # "none" =>
      /\ Len(lastCall.sent) = 1
      /\ Len(chatLog) + Len(embLog) = 1
      /\ lastCall.served[1].ok => lastCall.exc = "none"
      /\ ~lastCall.served[1].ok =>
           /\ lastCall.exc = lastCall.served[1].exc
           /\ raised = lastCall.served[1].exc
           /\ lastCall.ret = <<>>

\* C5 witness: the request of ask_with_context failed.
C5_Witness ==
    /\ lastCall.fn = "ask_with_context"
    /\ ~lastCall.served[1].ok
    /\ raised = "RateLimitError"

\* The hits a ranking did not return.
NotReturned(results) ==
    {p \in collection.points : \A k \in 1..Len(results) : results[k].id # p.id}

Roles == {"system", "user", "assistant", "tool"}

\* C7: every chat-completion request the notebooks send starts with one
\* system message followed by messages that alternate user, assistant, user,
\* ..., beginning with user; every message has a role of system, user,
\* assistant or tool, and a content.
C7_ChatFormat ==
    \A r \in 1..Len(chatLog) :
      LET messages == chatLog[r].messages
      IN /\ Len(messages) >= 2
         /\ \A k \in 1..Len(messages) :
              /\ DOMAIN messages[k] = {"role", "content"}
              /\ messages[k].role \in Roles
              /\ messages[k].content # <<>>
              /\ messages[k].role =
                   (IF k = 1 THEN "system"
                    ELSE IF k % 2 = 0 THEN "user" ELSE "assistant")

\* C7 witness: the few-shot request of seven messages has been sent.
C7_Witness ==
    /\ nb = "prompting"
    /\ Len(chatLog) = 2
    /\ Len(chatLog[2].messages) = 7
    /\ chatLog[2].messages[7].role = "assistant"

\* C8: ask sends one request of two messages, the system message "You are a
\* helpful assistant." and then a user message whose content is the query,
\* with temperature 0 and the given model, and returns the content of the
\* message of the first choice of the response.
C8_AskRequest ==
    lastCall.fn = "ask" =>
      /\ Len(lastCall.sent) = 1
      /\ LET request == lastCall.sent[1]
         IN /\ Len(request.messages) = 2
            /\ request.messages[1].role = "system"
            /\ request.messages[1].content = <<Lit("You are a helpful assistant.")>>
            /\ request.messages[2].role = "user"
            /\ request.messages[2].content = lastCall.query
            /\ request.temperature = 0
            /\ request.model = lastCall.model
      /\ lastCall.exc = "none" =>
           lastCall.ret = lastCall.served[1].response.choices[1].message.content

\* C8 witness: ask has returned the reply to a query with another model.
C8_Witness ==
    /\ nb = "calls"
    /\ lastCall.fn = "ask"
    /\ lastCall.model = "gpt-4"
    /\ lastCall.exc = "none"
    /\ lastCall.ret = <<Lit("reply B")>>

\* The elements of a list one after the other, a blank line between two.
Below(context) ==
    LET upto[k \in 0..Len(context)] ==
          IF k = 0 THEN <<>>
          ELSE upto[k - 1] \o (IF k > 1 THEN <<SEP>> ELSE <<>>) \o context[k]
    IN upto[Len(context)]

\* C9: the user message ask_with_context sends is the introduction, then the
\* elements of context in their order with a blank line between two, then a
\* blank line, "Question: ", the query and a blank line; the model is called
\* once, also for an empty context, whose prompt is the introduction directly
\* followed by the question.
C9_PromptLayout ==
    lastCall.fn = "ask_with_context" =>
      LET prompt == lastCall.sent[1].messages[2].content
          writing == Below(lastCall.context)
          tail == <<SEP, Lit("Question: ")>> \o lastCall.query \o <<SEP>>
      IN /\ Len(lastCall.sent) = 1
         /\ lastCall.sent[1].messages[2].role = "user"
         /\ Len(prompt) = 1 + Len(writing) + Len(tail)
         /\ prompt[1] = introduction[1]
         /\ SubSeq(prompt, 2, 1 + Len(writing)) = writing
         /\ SubSeq(prompt, 2 + Len(writing), Len(prompt)) = tail
         /\ lastCall.context = <<>> => prompt = introduction \o tail

\* C9 witness: a prompt built from two context elements.
C9_Witness ==
    /\ nb = "calls"
    /\ lastCall.fn = "ask_with_context"
    /\ Len(lastCall.context) = 2
    /\ lastCall.context[1] # lastCall.context[2]

\* C10: once the index cell has run, the collection holds exactly one point
\* per chunk, with ids 0..len(context_text)-1; the point of id i has the
\* vector vectors[i] and the payload context_text[i]; every hit of the search
\* has an id that indexes context_text, at the chunk that is its payload.
C10_OnePointPerChunk ==
    (nb = "search" /\ "points" \in names) =>
      LET n == Len(g.context_text)
      IN /\ Cardinality(collection.points) = n
         /\ {p.id : p \in collection.points} = 0..(n - 1)
         /\ \A p \in collection.points :
              /\ p.vector = g.vectors[p.id + 1]
              /\ p.payload = g.context_text[p.id + 1]
         /\ \A k \in 1..Len(g.search_results) :
              /\ g.search_results[k].id \in 0..(n - 1)
              /\ g.context_text[g.search_results[k].id + 1]
                   = g.search_results[k].payload

\* C10 witness: the search has returned a hit that is not the first chunk.
C10_Witness ==
    /\ nb = "search"
    /\ "points" \in names
    /\ Len(g.context_text) >= 3
    /\ Len(g.search_results) = 2
    /\ g.search_results[1].id = 2
====
